---- MODULE Spec2Model ----
(***************************************************************************)
(* A model of the pcap gRPC server (package pcap): the InterfaceList       *)
(* handler and the LiveCapture streaming handler with its reader           *)
(* goroutine, the shared shuttingDown channel and the stream context.      *)
(*                                                                         *)
(* Strings that the code takes apart (interface addresses) are sequences   *)
(* of one-character strings.  Calls into libraries (gopacket/pcap, net,    *)
(* grpc) are modelled by their documented outcomes; where a call can fail  *)
(* the outcome is chosen nondeterministically.                             *)
(***************************************************************************)
EXTENDS Integers, Sequences, FiniteSets, TLC

(***************************************************************************)
(* Bounds of the model.                                                    *)
(***************************************************************************)
MaxIfaces == 2      \* host interfaces per net.Interfaces() answer
MaxAddrs == 1       \* addresses per interface
MaxReads == 2       \* ReadPacketData calls per session

(***************************************************************************)
(* Program constants.                                                      *)
(***************************************************************************)
IFF_UP == 1         \* unix.IFF_UP
IPv4len == 4        \* net.IPv4len
IPv6len == 16       \* net.IPv6len

----------------------------------------------------------------------------
(***************************************************************************)
(* Text helpers: strings.Split(s, "/")[0] and the parsers behind           *)
(* net.ParseIP.                                                            *)
(***************************************************************************)

\* Index of the first occurrence of character c in s, 0 when there is none.
RECURSIVE IndexFrom(_, _, _)
IndexFrom(s, c, i) ==
    IF i > Len(s) THEN 0
    ELSE IF s[i] = c THEN i
    ELSE IndexFrom(s, c, i + 1)

\* strings.Split(s, "/")[0]: the text before the first "/", all of s when
\* there is no "/".
SplitFirst(s) ==
    LET k == IndexFrom(s, "/", 1)
    IN  IF k = 0 THEN s ELSE SubSeq(s, 1, k - 1)

DigitVal(c) ==
    CASE c = "0" -> 0 [] c = "1" -> 1 [] c = "2" -> 2 [] c = "3" -> 3
      [] c = "4" -> 4 [] c = "5" -> 5 [] c = "6" -> 6 [] c = "7" -> 7
      [] c = "8" -> 8 [] c = "9" -> 9 [] c = "a" -> 10 [] c = "b" -> 11
      [] c = "c" -> 12 [] c = "d" -> 13 [] c = "e" -> 14 [] c = "f" -> 15
      [] OTHER -> 99

\* dtoi / xtoi: the leading number of s in the given base; n is its value,
\* c the number of characters consumed, ok is FALSE when no digit was read
\* or the value reached 0xFFFFFF, the cap of both.
RECURSIVE ScanNum(_, _, _, _)
ScanNum(s, base, i, n) ==
    IF i <= Len(s) /\ DigitVal(s[i]) < base
    THEN IF n * base + DigitVal(s[i]) >= 16777215
         THEN [n |-> 16777215, c |-> i, ok |-> FALSE]
         ELSE ScanNum(s, base, i + 1, n * base + DigitVal(s[i]))
    ELSE [n |-> n, c |-> i - 1, ok |-> i > 1]

dtoi(s) == ScanNum(s, 10, 1, 0)
xtoi(s) == ScanNum(s, 16, 1, 0)

Tail0(s, k) == SubSeq(s, k + 1, Len(s))   \* s[k:]

\* net.IPv4(a, b, c, d): the 16-byte IPv4-in-IPv6 form.
IPv4(a, b, c, d) == <<0, 0, 0, 0, 0, 0, 0, 0, 0, 0, 255, 255, a, b, c, d>>

\* parseIPv4: four decimal fields of at most 255 separated by dots; <<>>
\* (nil) otherwise.
RECURSIVE parseIPv4Fields(_, _, _)
parseIPv4Fields(s, i, p) ==
    IF i = IPv4len
    THEN IF Len(s) # 0 THEN <<>> ELSE IPv4(p[1], p[2], p[3], p[4])
    ELSE IF Len(s) = 0 THEN <<>>
    ELSE IF i > 0 /\ s[1] # "." THEN <<>>
    ELSE LET t == IF i > 0 THEN Tail(s) ELSE s
             r == dtoi(t)
         IN  IF ~r.ok \/ r.n > 255 THEN <<>>
             ELSE parseIPv4Fields(Tail0(t, r.c), i + 1, Append(p, r.n))

parseIPv4(s) == parseIPv4Fields(s, 0, <<>>)

\* The loop of parseIPv6 over 16-bit groups: g is the groups read so far,
\* ellipsis the group position of "::" (-1 when none).  Returns the groups
\* and the ellipsis, or ok = FALSE.  (The trailing dotted-quad form is not
\* modelled: a dot after a hex field fails the parse.)
RECURSIVE parseIPv6Groups(_, _, _)
parseIPv6Groups(s, g, ellipsis) ==
    IF 2 * Len(g) >= IPv6len
    THEN [ok |-> Len(s) = 0, g |-> g, ellipsis |-> ellipsis]
    ELSE LET r == xtoi(s)
         IN  IF ~r.ok \/ r.n > 65535
             THEN [ok |-> FALSE, g |-> g, ellipsis |-> ellipsis]
             ELSE LET g2 == Append(g, r.n)
                      t == Tail0(s, r.c)
                  IN  IF Len(t) = 0
                      THEN [ok |-> TRUE, g |-> g2, ellipsis |-> ellipsis]
                      ELSE IF t[1] # ":" \/ Len(t) = 1
                      THEN [ok |-> FALSE, g |-> g2, ellipsis |-> ellipsis]
                      ELSE IF t[2] = ":"
                      THEN IF ellipsis >= 0
                           THEN [ok |-> FALSE, g |-> g2, ellipsis |-> ellipsis]
                           ELSE IF Len(t) = 2
                           THEN [ok |-> TRUE, g |-> g2, ellipsis |-> Len(g2)]
                           ELSE parseIPv6Groups(Tail0(t, 2), g2, Len(g2))
                      ELSE parseIPv6Groups(Tail0(t, 1), g2, ellipsis)

\* The 16 bytes of a sequence of 16-bit groups.
RECURSIVE GroupBytes(_)
GroupBytes(g) ==
    IF g = <<>> THEN <<>>
    ELSE <<Head(g) \div 256, Head(g) % 256>> \o GroupBytes(Tail(g))

Zeros(n) == [i \in 1..n |-> 0]

\* parseIPv6: the 16 bytes of the address, <<>> (nil) when s is not one.
parseIPv6(s) ==
    LET lead == Len(s) >= 2 /\ s[1] = ":" /\ s[2] = ":"
        rest == IF lead THEN Tail0(s, 2) ELSE s
    IN  IF lead /\ Len(rest) = 0 THEN GroupBytes(Zeros(8))
        ELSE LET r == parseIPv6Groups(rest, <<>>, IF lead THEN 0 ELSE -1)
                 n == Len(r.g)
             IN  IF ~r.ok THEN <<>>
                 ELSE IF n < 8
                 THEN IF r.ellipsis < 0 THEN <<>>
                      ELSE GroupBytes(SubSeq(r.g, 1, r.ellipsis)
                                      \o Zeros(8 - n)
                                      \o SubSeq(r.g, r.ellipsis + 1, n))
                 ELSE IF r.ellipsis >= 0 THEN <<>>
                 ELSE GroupBytes(r.g)

\* net.ParseIP: dispatch on the first "." or ":" of s; <<>> (nil) when s
\* has neither or does not parse.
RECURSIVE ParseIPFrom(_, _)
ParseIPFrom(s, i) ==
    IF i > Len(s) THEN <<>>
    ELSE IF s[i] = "." THEN parseIPv4(s)
    ELSE IF s[i] = ":" THEN parseIPv6(s)
    ELSE ParseIPFrom(s, i + 1)

ParseIP(s) == ParseIPFrom(s, 1)

\* IP.To4: the 4-byte form of a 4-byte address or of an IPv4-in-IPv6
\* address, <<>> (nil) otherwise -- in particular for the nil IP.
To4(ip) ==
    IF Len(ip) = IPv4len THEN ip
    ELSE IF Len(ip) = IPv6len
            /\ \A i \in 1..10 : ip[i] = 0
            /\ ip[11] = 255 /\ ip[12] = 255
    THEN SubSeq(ip, 13, 16)
    ELSE <<>>

----------------------------------------------------------------------------
(***************************************************************************)
(* InterfaceList.                                                          *)
(***************************************************************************)

\* Inputs of the model: address texts as Addr.String() gives them (an IPv4
\* and an IPv6 network, and the text of an IPNet without address), device
\* flag words (bit 0 is IFF_UP, bit 1 is broadcast): up, down, up.
AddrSamples ==
    { <<"1", "0", ".", "0", ".", "0", ".", "1", "/", "2", "4">>,
      <<"f", "e", "8", "0", ":", ":", "1", "/", "6", "4">>,
      <<"<", "n", "i", "l", ">">> }

FlagSamples == {1, 2, 3}

SeqsUpTo(S, n) == UNION { [1..k -> S] : k \in 0..n }

HexDigit(n) ==
    CASE n = 0 -> "0" [] n = 1 -> "1" [] n = 2 -> "2" [] n = 3 -> "3"
      [] n = 4 -> "4" [] n = 5 -> "5" [] n = 6 -> "6" [] n = 7 -> "7"
      [] n = 8 -> "8" [] n = 9 -> "9" [] n = 10 -> "a" [] n = 11 -> "b"
      [] n = 12 -> "c" [] n = 13 -> "d" [] n = 14 -> "e" [] n = 15 -> "f"

\* HardwareAddr.String(): the bytes in hex, separated by colons; the empty
\* text for the empty address.
RECURSIVE HardwareAddrString(_)
HardwareAddrString(b) ==
    IF b = <<>> THEN <<>>
    ELSE <<HexDigit(Head(b) \div 16), HexDigit(Head(b) % 16)>>
         \o (IF Tail(b) = <<>> THEN <<>>
             ELSE <<":">> \o HardwareAddrString(Tail(b)))

\* The host's i-th interface: the first one is a loopback without a
\* hardware address.
HostInterface(i, flags, addrs) ==
    [Name |-> <<"if", i>>,
     Flags |-> flags,
     HardwareAddr |-> IF i = 1 THEN <<>> ELSE <<2, 0, 0, 0, 0, i>>,
     Addrs |-> addrs]

HostInterfaceSets ==
    { [i \in 1..k |-> HostInterface(i, f[i], a[i])] :
        <<k, f, a>> \in
          UNION { {k} \X [1..k -> FlagSamples]
                      \X [1..k -> SeqsUpTo(AddrSamples, MaxAddrs)]
                  : k \in 0..MaxIfaces } }

\* isUp := iface.Flags&unix.IFF_UP != 0
isUp(iface) == (iface.Flags \div IFF_UP) % 2 # 0

\* The loop over addrs: strip the prefix length, parse, and append the
\* stripped text to Ipv4Addresses when To4 is not nil, to Ipv6Addresses
\* in every other case.
RECURSIVE ClassifyAddrs(_, _)
ClassifyAddrs(addrs, ri) ==
    IF addrs = <<>> THEN ri
    ELSE LET address == SplitFirst(Head(addrs))
             ip == ParseIP(address)
         IN  IF To4(ip) # <<>>
             THEN ClassifyAddrs(Tail(addrs),
                    [ri EXCEPT !.Ipv4Addresses = Append(@, address)])
             ELSE ClassifyAddrs(Tail(addrs),
                    [ri EXCEPT !.Ipv6Addresses = Append(@, address)])

\* The body of the loop over interfaces for an interface that is kept.
ResultInterface(iface) ==
    ClassifyAddrs(iface.Addrs,
        [Name |-> iface.Name,
         Up |-> isUp(iface),
         EthernetAddresses |-> <<HardwareAddrString(iface.HardwareAddr)>>,
         Ipv4Addresses |-> <<>>,
         Ipv6Addresses |-> <<>>])

\* SkipInterface with the --all test turned around.
SkipInterfaceAllInverted(iface, all) == ~(isUp(iface) \/ ~all)

\* if !(isUp || in.All) { continue }
SkipInterface(iface, all) == ~(isUp(iface) \/ all)

\* The loop over interfaces.
RECURSIVE ResultInterfaces(_, _)
ResultInterfaces(interfaces, all) ==
    IF interfaces = <<>> THEN <<>>
    ELSE IF SkipInterface(Head(interfaces), all)
    THEN ResultInterfaces(Tail(interfaces), all)
    ELSE <<ResultInterface(Head(interfaces))>>
         \o ResultInterfaces(Tail(interfaces), all)

\* InterfaceListReply with Success set only when an interface is returned.
InterfaceListReplySuccessIfAny(all, interfaces, queryErr) ==
    IF queryErr # "nil"
    THEN [Success |-> FALSE, Interfaces |-> <<>>, err |-> "nil"]
    ELSE [Success |-> ResultInterfaces(interfaces, all) # <<>>,
          Interfaces |-> ResultInterfaces(interfaces, all),
          err |-> "nil"]

\* The reply and the error InterfaceList returns for request with All = all when
\* net.Interfaces() answers (interfaces, queryErr).
InterfaceListReply(all, interfaces, queryErr) ==
    IF queryErr # "nil"
    THEN [Success |-> FALSE, Interfaces |-> <<>>, err |-> "nil"]
    ELSE [Success |-> TRUE,
          Interfaces |-> ResultInterfaces(interfaces, all),
          err |-> "nil"]

----------------------------------------------------------------------------
(***************************************************************************)
(* The packet record LiveCapture frames from a read result.  uint32 values *)
(* are kept as two 16-bit halves, so that a product is reduced modulo 2^32 *)
(* as the Go arithmetic does.                                              *)
(***************************************************************************)
U16 == 65536

\* uint32(n) for 0 <= n < 2^31
Uint32(n) == [hi |-> (n \div U16) % U16, lo |-> n % U16]

\* uint32(n) * k in 32-bit unsigned arithmetic, for 0 <= n < 2^31 and
\* 0 <= k < 2^15
MulUint32(n, k) ==
    LET low == (n % U16) * k
        high == ((n \div U16) % U16) * k + low \div U16
    IN  [hi |-> high % U16, lo |-> low % U16]

\* Microseconds: uint32(p.ci.Timestamp.Nanosecond()) * 1000
Microseconds(nsec) == MulUint32(nsec, 1000)

\* packetData := &api.PacketData{...} for the read result r
PacketData(r) ==
    [Seconds |-> r.ci.Timestamp.sec,
     Microseconds |-> Microseconds(r.ci.Timestamp.nsec),
     OriginalLength |-> Uint32(r.ci.Length),
     Data |-> r.data]

----------------------------------------------------------------------------
(***************************************************************************)
(* LiveCapture sessions.                                                   *)
(***************************************************************************)
\* The streams the server can hold.  Spec runs one LiveCapture call on
\* them, SpecList none.
Sessions == {1, 2}

DefaultBufferSize == 4194304    \* 1024 * 1024 * 4

\* The requests of the model.
Requests ==
    [Interface : {"eth0"},
     Filter : {"", "tcp"},
     Snaplen : {96},
     BufferSizeBytes : {0, 65536},
     PromiscuousMode : {TRUE},
     RfMonitor : {TRUE},
     ImmediateMode : {TRUE},
     TimeoutNanoseconds : {0, 1000000}]

IdleRequest ==
    CHOOSE r \in Requests :
        r.Filter = "" /\ r.BufferSizeBytes = 0 /\ r.TimeoutNanoseconds = 0

\* Nanosecond components of the capture timestamps the device delivers.
NanoSamples == {0, 1500, 999999999}

\* Errors ReadPacketData returns: pcap.NextErrorTimeoutExpired when the read
\* timeout set on the handle passes without a packet, and a device error.
ReadErrors == {"TimeoutExpired", "ReadFailure"}

\* The zero CaptureInfo.
NoCaptureInfo == [Timestamp |-> [sec |-> 0, nsec |-> 0], Length |-> 0]

NoPacket == [data |-> <<>>, ci |-> NoCaptureInfo, err |-> "none"]

\* What the k-th ReadPacketData of a session can resolve to: packet k of
\* the device with some capture timestamp, or an error.
ReadResults(k) ==
    { [data |-> <<k>>,
       ci |-> [Timestamp |-> [sec |-> k, nsec |-> n], Length |-> 60 + k],
       err |-> "nil"] : n \in NanoSamples }
    \cup
    { [data |-> <<>>, ci |-> NoCaptureInfo, err |-> e] : e \in ReadErrors }

VARIABLES
    in,             \* in[s]: the CaptureRequest of session s
    pc,             \* pc[s]: the call LiveCapture is about to make
    err,            \* err[s]: the local variable err
    inactive,       \* inactive[s]: inactiveHandle: nil, live, activated, cleaned
    handle,         \* handle[s]: handle: nil, open, closed
    calls,          \* calls[s]: the set-up calls on the two handles, each as
                    \*   <<method, argument, error returned>>
    reader,         \* reader[s]: the reader goroutine of the current iteration
    pkt,            \* pkt[s]: the packetData the reader offers on channel packet
    p,              \* p[s]: the packetData the select received
    reads,          \* reads[s]: ReadPacketData calls made
    sent,           \* sent[s]: the PacketData sent on the stream
    ret,            \* ret[s]: what LiveCapture returned, "none" before
    ctxDone,        \* ctxDone[s]: stream.Context().Done() is closed
    shuttingDown,   \* the channel shuttingDown: open or closed
    observed,       \* observed[s]: the signal branch the select took
    sigAtChoice,    \* sigAtChoice[s]: a signal had fired when p was received
    lateSends,      \* lateSends[s]: records sent with sigAtChoice set
    acquires,       \* acquires[s]: live handles obtained from Activate
    closes,         \* closes[s]: Close calls on a live handle
    nilCalls,       \* nilCalls[s]: the method called on a nil handle
    readAfterClose, \* readAfterClose[s]: ReadPacketData ran on a closed handle
    listIn,         \* InterfaceList: the request and the host's answer
    listOut         \* InterfaceList: the reply and error returned

vars == <<in, pc, err, inactive, handle, calls, reader, pkt, p, reads, sent,
          ret, ctxDone, shuttingDown, observed, sigAtChoice, lateSends,
          acquires, closes, nilCalls, readAfterClose,
          listIn, listOut>>

readerVars == <<reader, pkt, p, reads, readAfterClose>>
streamVars == <<sent, lateSends, sigAtChoice, observed>>
envVars == <<shuttingDown, ctxDone>>
listVars == <<listIn, listOut>>
endVars == <<ret, handle, closes, inactive, nilCalls>>

NoList == [All |-> FALSE, queryErr |-> "nil", interfaces |-> <<>>]

\* listOut before InterfaceList has returned.
NoReply == [Success |-> FALSE, Interfaces |-> <<>>, err |-> "none"]

\* The state in which the calls of the sessions in C have just begun; the
\* other sessions are absent and stay so.
SessionInit(C) ==
    /\ in \in { f \in [Sessions -> Requests] :
                  \A s \in Sessions \ C : f[s] = IdleRequest }
    /\ pc = [s \in Sessions |-> IF s \in C THEN "NewInactiveHandle" ELSE "absent"]
    /\ err = [s \in Sessions |-> "nil"]
    /\ inactive = [s \in Sessions |-> "nil"]
    /\ handle = [s \in Sessions |-> "nil"]
    /\ calls = [s \in Sessions |-> <<>>]
    /\ reader = [s \in Sessions |-> "none"]
    /\ pkt = [s \in Sessions |-> NoPacket]
    /\ p = [s \in Sessions |-> NoPacket]
    /\ reads = [s \in Sessions |-> 0]
    /\ sent = [s \in Sessions |-> <<>>]
    /\ ret = [s \in Sessions |-> "none"]
    /\ ctxDone = [s \in Sessions |-> FALSE]
    /\ shuttingDown = "open"
    /\ observed = [s \in Sessions |-> "none"]
    /\ sigAtChoice = [s \in Sessions |-> FALSE]
    /\ lateSends = [s \in Sessions |-> 0]
    /\ acquires = [s \in Sessions |-> 0]
    /\ closes = [s \in Sessions |-> 0]
    /\ nilCalls = [s \in Sessions |-> "none"]
    /\ readAfterClose = [s \in Sessions |-> FALSE]

Init ==
    /\ SessionInit({1})
    /\ listIn = NoList
    /\ listOut = NoReply

\* An unrecovered panic in a handler goroutine ends the process.
Crashed == \E s \in Sessions : pc[s] = "panicked"

\* One of the two signals of the select has fired for session s.
Signalled(s) == shuttingDown = "closed" \/ ctxDone[s]

\* InactiveHandle.CleanUp on a non-nil receiver: closes the pcap handle the
\* inactive handle still owns, nothing after Activate took it.
CleanUp(st) == IF st = "live" THEN "cleaned" ELSE st

\* A method of a nil *Handle or nil *InactiveHandle dereferences the
\* receiver: the goroutine panics, the deferred CleanUp runs, nothing is
\* returned.
Panic(s, op) ==
    /\ pc' = [pc EXCEPT ![s] = "panicked"]
    /\ nilCalls' = [nilCalls EXCEPT ![s] = op]
    /\ inactive' = [inactive EXCEPT ![s] = CleanUp(@)]
    /\ UNCHANGED <<ret, handle, closes>>

\* return e: the deferred calls run last-in first-out, handle.Close() when
\* it was deferred (closeDeferred), then inactiveHandle.CleanUp().
Return(s, e, closeDeferred) ==
    IF closeDeferred /\ handle[s] = "nil" THEN Panic(s, "Close")
    ELSE IF inactive[s] = "nil" THEN Panic(s, "CleanUp")
    ELSE /\ pc' = [pc EXCEPT ![s] = "done"]
         /\ ret' = [ret EXCEPT ![s] = e]
         /\ inactive' = [inactive EXCEPT ![s] = CleanUp(@)]
         /\ handle' = [handle EXCEPT ![s] = IF closeDeferred THEN "closed" ELSE @]
         /\ closes' = [closes EXCEPT ![s] = IF closeDeferred THEN @ + 1 ELSE @]
         /\ UNCHANGED nilCalls

\* The call continues at the next statement.
Goto(s, next) ==
    /\ pc' = [pc EXCEPT ![s] = next]
    /\ UNCHANGED endVars

\* inactiveHandle, err := pcap.NewInactiveHandle(in.Interface), the deferred
\* CleanUp and the error check.
NewInactiveHandle(s) ==
    /\ ~Crashed /\ pc[s] = "NewInactiveHandle"
    /\ \E e \in {"nil", "NewInactiveHandle"} :
         /\ calls' = [calls EXCEPT ![s] =
                        Append(@, <<"NewInactiveHandle", in[s].Interface, e>>)]
         /\ err' = [err EXCEPT ![s] = e]
         /\ IF e # "nil"
            THEN Return(s, e, FALSE)
            ELSE /\ pc' = [pc EXCEPT ![s] = "SetImmediateMode"]
                 /\ inactive' = [inactive EXCEPT ![s] = "live"]
                 /\ UNCHANGED <<ret, handle, closes, nilCalls>>
    /\ UNCHANGED <<in, acquires, readerVars, streamVars, envVars, listVars>>

\* err = inactiveHandle.<op>(arg) and what follows it: a fatal error is
\* returned, any other outcome continues at next.
Configure(s, op, arg, next, fatal) ==
    /\ ~Crashed /\ pc[s] = op
    /\ \E e \in {"nil", op} :
         /\ calls' = [calls EXCEPT ![s] = Append(@, <<op, arg, e>>)]
         /\ err' = [err EXCEPT ![s] = e]
         /\ IF e # "nil" /\ fatal THEN Return(s, e, FALSE) ELSE Goto(s, next)
    /\ UNCHANGED <<in, acquires, readerVars, streamVars, envVars, listVars>>

SetImmediateMode(s) ==
    Configure(s, "SetImmediateMode", in[s].ImmediateMode, "SetSnapLen", TRUE)

\* SetSnapLen with the buffer size left at the library's default.
SetSnapLenKeepsBuffer(s) ==
    Configure(s, "SetSnapLen", in[s].Snaplen, "SetPromisc", TRUE)

SetSnapLen(s) ==
    Configure(s, "SetSnapLen", in[s].Snaplen, "SetBufferSize", TRUE)

\* bufferSize := in.BufferSizeBytes, 4 MiB when that is 0
bufferSize(s) ==
    IF in[s].BufferSizeBytes = 0 THEN DefaultBufferSize
    ELSE in[s].BufferSizeBytes

SetBufferSize(s) ==
    Configure(s, "SetBufferSize", bufferSize(s), "SetPromisc", TRUE)

SetPromisc(s) ==
    Configure(s, "SetPromisc", in[s].PromiscuousMode, "SetRFMon", TRUE)

\* SetRFMon with its error returned like the other settings' errors.
SetRFMonFatal(s) ==
    Configure(s, "SetRFMon", in[s].RfMonitor, "SetTimeout", TRUE)

\* The error of SetRFMon is logged, not returned.
SetRFMon(s) ==
    Configure(s, "SetRFMon", in[s].RfMonitor, "SetTimeout", FALSE)

SetTimeout(s) ==
    Configure(s, "SetTimeout", in[s].TimeoutNanoseconds, "Activate", TRUE)

\* handle, err := inactiveHandle.Activate(): a live handle and a nil error,
\* or a nil handle and an error.  The error is not looked at here.
Activate(s) ==
    /\ ~Crashed /\ pc[s] = "Activate"
    /\ \E e \in {"nil", "Activate"} :
         /\ calls' = [calls EXCEPT ![s] = Append(@, <<"Activate", "", e>>)]
         /\ err' = [err EXCEPT ![s] = e]
         /\ handle' = [handle EXCEPT ![s] = IF e = "nil" THEN "open" ELSE "nil"]
         /\ acquires' = [acquires EXCEPT ![s] = IF e = "nil" THEN @ + 1 ELSE @]
         /\ inactive' = [inactive EXCEPT ![s] = IF e = "nil" THEN "activated" ELSE @]
    /\ pc' = [pc EXCEPT ![s] = "SetBPFFilter"]
    /\ UNCHANGED <<in, ret, closes, nilCalls,
                   readerVars, streamVars, envVars, listVars>>

\* SetBPFFilter with the error of the filter logged instead of returned.
SetBPFFilterErrorLogged(s) ==
    /\ ~Crashed /\ pc[s] = "SetBPFFilter"
    /\ IF Len(in[s].Filter) > 0
       THEN IF handle[s] = "nil"
            THEN /\ Panic(s, "SetBPFFilter")
                 /\ UNCHANGED <<calls, err>>
            ELSE \E e \in {"nil", "SetBPFFilter"} :
                      /\ calls' = [calls EXCEPT ![s] =
                                     Append(@, <<"SetBPFFilter", in[s].Filter, e>>)]
                      /\ err' = [err EXCEPT ![s] = "nil"]
                      /\ Goto(s, "Loop")
       ELSE /\ Goto(s, "DeferClose")
            /\ UNCHANGED <<calls, err>>
    /\ UNCHANGED <<in, acquires, readerVars, streamVars, envVars, listVars>>

\* if len(in.Filter) > 0 { err = handle.SetBPFFilter(in.Filter); if err !=
\* nil { return err } }: the call is made on whatever Activate returned,
\* and its error is returned before handle.Close() is deferred.
SetBPFFilter(s) ==
    /\ ~Crashed /\ pc[s] = "SetBPFFilter"
    /\ IF Len(in[s].Filter) > 0
       THEN IF handle[s] = "nil"
            THEN /\ Panic(s, "SetBPFFilter")
                 /\ UNCHANGED <<calls, err>>
            ELSE \E e \in {"nil", "SetBPFFilter"} :
                      /\ calls' = [calls EXCEPT ![s] =
                                     Append(@, <<"SetBPFFilter", in[s].Filter, e>>)]
                      /\ err' = [err EXCEPT ![s] = e]
                      /\ IF e # "nil" THEN Return(s, e, FALSE)
                         ELSE Goto(s, "DeferClose")
       ELSE /\ Goto(s, "DeferClose")
            /\ UNCHANGED <<calls, err>>
    /\ UNCHANGED <<in, acquires, readerVars, streamVars, envVars, listVars>>

\* defer handle.Close(); if err != nil { return err }
DeferClose(s) ==
    /\ ~Crashed /\ pc[s] = "DeferClose"
    /\ IF err[s] # "nil" THEN Return(s, err[s], TRUE) ELSE Goto(s, "Loop")
    /\ UNCHANGED <<in, err, calls, acquires, readerVars, streamVars, envVars, listVars>>

\* The head of the for loop: packet := make(chan *packetData) and the go
\* statement.
StartReader(s) ==
    /\ ~Crashed /\ pc[s] = "Loop"
    /\ reads[s] < MaxReads
    /\ reader' = [reader EXCEPT ![s] = "spawned"]
    /\ Goto(s, "Select")
    /\ UNCHANGED <<in, err, calls, acquires, pkt, p, reads, readAfterClose,
                   streamVars, envVars, listVars>>

\* The reader goroutine calls handle.ReadPacketData().
ReadPacketData(s) ==
    /\ ~Crashed /\ reader[s] = "spawned"
    /\ reader' = [reader EXCEPT ![s] = "inflight"]
    /\ reads' = [reads EXCEPT ![s] = @ + 1]
    /\ readAfterClose' = [readAfterClose EXCEPT ![s] = @ \/ handle[s] = "closed"]
    /\ UNCHANGED <<in, pc, err, calls, acquires, pkt, p, endVars,
                   streamVars, envVars, listVars>>

\* What the read in flight of session s can resolve to: the timeout error
\* only when the request set a read timeout.
ReadOutcomes(s) ==
    { r \in ReadResults(reads[s]) :
        r.err = "TimeoutExpired" => in[s].TimeoutNanoseconds > 0 }

\* ReadPacketData returns; the goroutine blocks in packet <- &packetData{}.
ReadResolves(s) ==
    /\ ~Crashed /\ reader[s] = "inflight"
    /\ \E r \in ReadOutcomes(s) : pkt' = [pkt EXCEPT ![s] = r]
    /\ reader' = [reader EXCEPT ![s] = "ready"]
    /\ UNCHANGED <<in, pc, err, calls, acquires, p, reads, readAfterClose,
                   endVars, streamVars, envVars, listVars>>

\* SelectShuttingDown with the test of running turned around: the case
\* falls out of the select and the loop goes on.
SelectShuttingDownContinues(s) ==
    /\ ~Crashed /\ pc[s] = "Select"
    /\ shuttingDown = "closed"
    /\ observed' = [observed EXCEPT ![s] = "shuttingDown"]
    /\ Goto(s, "Loop")
    /\ UNCHANGED <<in, err, calls, acquires, readerVars,
                   sent, lateSends, sigAtChoice, envVars, listVars>>

\* select, case _, running := <-shuttingDown: the channel is never sent
\* on, so the receive succeeds only once it is closed, with running false.
SelectShuttingDown(s) ==
    /\ ~Crashed /\ pc[s] = "Select"
    /\ shuttingDown = "closed"
    /\ observed' = [observed EXCEPT ![s] = "shuttingDown"]
    /\ Return(s, "nil", TRUE)
    /\ UNCHANGED <<in, err, calls, acquires, readerVars,
                   sent, lateSends, sigAtChoice, envVars, listVars>>

\* select, case <-stream.Context().Done()
SelectContextDone(s) ==
    /\ ~Crashed /\ pc[s] = "Select"
    /\ ctxDone[s]
    /\ observed' = [observed EXCEPT ![s] = "Done"]
    /\ Return(s, "nil", TRUE)
    /\ UNCHANGED <<in, err, calls, acquires, readerVars,
                   sent, lateSends, sigAtChoice, envVars, listVars>>

\* SelectPacket with a failed read retried instead of returned.
SelectPacketRetries(s) ==
    /\ ~Crashed /\ pc[s] = "Select"
    /\ reader[s] = "ready"
    /\ p' = [p EXCEPT ![s] = pkt[s]]
    /\ pkt' = [pkt EXCEPT ![s] = NoPacket]
    /\ reader' = [reader EXCEPT ![s] = "exited"]
    /\ sigAtChoice' = [sigAtChoice EXCEPT ![s] = Signalled(s)]
    /\ IF pkt[s].err # "nil" THEN Goto(s, "Loop") ELSE Goto(s, "Send")
    /\ UNCHANGED <<in, err, calls, acquires, reads, readAfterClose,
                   sent, lateSends, observed, envVars, listVars>>

\* SelectPacket in a select with a default case: with no case ready the
\* loop goes round without waiting for the reader.
SelectPacketOrDefault(s) ==
    /\ ~Crashed /\ pc[s] = "Select"
    /\ IF reader[s] = "ready"
       THEN /\ p' = [p EXCEPT ![s] = pkt[s]]
            /\ pkt' = [pkt EXCEPT ![s] = NoPacket]
            /\ reader' = [reader EXCEPT ![s] = "exited"]
            /\ sigAtChoice' = [sigAtChoice EXCEPT ![s] = Signalled(s)]
            /\ IF pkt[s].err # "nil" THEN Return(s, pkt[s].err, TRUE)
               ELSE Goto(s, "Send")
       ELSE /\ ~Signalled(s)
            /\ Goto(s, "Loop")
            /\ UNCHANGED <<p, pkt, reader, sigAtChoice>>
    /\ UNCHANGED <<in, err, calls, acquires, reads, readAfterClose,
                   sent, lateSends, observed, envVars, listVars>>

\* select, case p := <-packet: the reader's send completes and the reader
\* goroutine ends; a read error is returned, a packet goes on to Send.
SelectPacket(s) ==
    /\ ~Crashed /\ pc[s] = "Select"
    /\ reader[s] = "ready"
    /\ p' = [p EXCEPT ![s] = pkt[s]]
    /\ pkt' = [pkt EXCEPT ![s] = NoPacket]
    /\ reader' = [reader EXCEPT ![s] = "exited"]
    /\ sigAtChoice' = [sigAtChoice EXCEPT ![s] = Signalled(s)]
    /\ IF pkt[s].err # "nil" THEN Return(s, pkt[s].err, TRUE)
       ELSE Goto(s, "Send")
    /\ UNCHANGED <<in, err, calls, acquires, reads, readAfterClose,
                   sent, lateSends, observed, envVars, listVars>>

\* Send with its error logged instead of returned: the record is dropped
\* and the loop goes on.
SendErrorLogged(s) ==
    /\ ~Crashed /\ pc[s] = "Send"
    /\ \E e \in (IF ctxDone[s] THEN {"Send"} ELSE {"nil", "Send"}) :
         /\ err' = [err EXCEPT ![s] = e]
         /\ sent' = [sent EXCEPT ![s] =
                       IF e = "nil" THEN Append(@, PacketData(p[s])) ELSE @]
         /\ lateSends' = [lateSends EXCEPT ![s] =
                            IF e = "nil" /\ sigAtChoice[s] THEN @ + 1 ELSE @]
         /\ Goto(s, "Loop")
    /\ UNCHANGED <<in, calls, acquires, readerVars, sigAtChoice, observed,
                   envVars, listVars>>

\* err = stream.Send(...) of the framed packet and the error check.  Send
\* fails on a stream whose context is done and can fail on any other.
Send(s) ==
    /\ ~Crashed /\ pc[s] = "Send"
    /\ \E e \in (IF ctxDone[s] THEN {"Send"} ELSE {"nil", "Send"}) :
         /\ err' = [err EXCEPT ![s] = e]
         /\ IF e # "nil"
            THEN /\ Return(s, e, TRUE)
                 /\ UNCHANGED <<sent, lateSends>>
            ELSE /\ sent' = [sent EXCEPT ![s] = Append(@, PacketData(p[s]))]
                 /\ lateSends' = [lateSends EXCEPT ![s] =
                                    IF sigAtChoice[s] THEN @ + 1 ELSE @]
                 /\ Goto(s, "Loop")
    /\ UNCHANGED <<in, calls, acquires, readerVars, sigAtChoice, observed,
                   envVars, listVars>>

\* The interrupt goroutine of StartUnixSocketServer: close(shuttingDown).
Interrupt ==
    /\ ~Crashed /\ shuttingDown = "open"
    /\ shuttingDown' = "closed"
    /\ UNCHANGED <<in, pc, err, calls, acquires, endVars, readerVars,
                   streamVars, ctxDone, listVars>>

\* The client closes or cancels the stream of a call in progress.
Cancel(s) ==
    /\ ~Crashed /\ pc[s] \notin {"absent", "done"} /\ ~ctxDone[s]
    /\ ctxDone' = [ctxDone EXCEPT ![s] = TRUE]
    /\ UNCHANGED <<in, pc, err, calls, acquires, endVars, readerVars,
                   streamVars, shuttingDown, listVars>>

Next ==
    \/ \E s \in Sessions : NewInactiveHandle(s)
    \/ \E s \in Sessions : SetImmediateMode(s)
    \/ \E s \in Sessions : SetSnapLen(s)
    \/ \E s \in Sessions : SetBufferSize(s)
    \/ \E s \in Sessions : SetPromisc(s)
    \/ \E s \in Sessions : SetRFMon(s)
    \/ \E s \in Sessions : SetTimeout(s)
    \/ \E s \in Sessions : Activate(s)
    \/ \E s \in Sessions : SetBPFFilter(s)
    \/ \E s \in Sessions : DeferClose(s)
    \/ \E s \in Sessions : StartReader(s)
    \/ \E s \in Sessions : ReadPacketData(s)
    \/ \E s \in Sessions : ReadResolves(s)
    \/ \E s \in Sessions : SelectShuttingDown(s)
    \/ \E s \in Sessions : SelectContextDone(s)
    \/ \E s \in Sessions : SelectPacket(s)
    \/ \E s \in Sessions : Send(s)
    \/ \E s \in Sessions : Cancel(s)
    \/ Interrupt

Spec == Init /\ [][Next]_vars

----------------------------------------------------------------------------
(***************************************************************************)
(* The specification of the server with a LiveCapture call on each of its  *)
(* streams, every call with the same request (no filter, default buffer,   *)
(* no read timeout).                                                       *)
(***************************************************************************)
InitServer ==
    /\ SessionInit(Sessions)
    /\ \A s \in Sessions : in[s] = IdleRequest
    /\ listIn = NoList
    /\ listOut = NoReply

SpecServer == InitServer /\ [][Next]_vars

----------------------------------------------------------------------------
(***************************************************************************)
(* The specification of InterfaceList: a request and an answer of          *)
(* net.Interfaces() are drawn, the handler runs once.                      *)
(***************************************************************************)
ListInputs ==
    [All : BOOLEAN, queryErr : {"nil"}, interfaces : HostInterfaceSets]
    \cup [All : BOOLEAN, queryErr : {"route ip+net: netlinkrib"}, interfaces : {<<>>}]

InitList ==
    /\ SessionInit({})
    /\ listIn \in ListInputs
    /\ listOut = NoReply

InterfaceList ==
    /\ listOut = NoReply
    /\ listOut' = InterfaceListReply(listIn.All, listIn.interfaces, listIn.queryErr)
    /\ UNCHANGED <<in, pc, err, calls, acquires, endVars, readerVars,
                   streamVars, envVars, listIn>>

NextList == InterfaceList

SpecList == InitList /\ [][NextList]_vars

----------------------------------------------------------------------------
(***************************************************************************)
(* Properties of LiveCapture, checked under Spec.                          *)
(***************************************************************************)

\* The call of session s has ended, by a return or by a panic.
Ended(s) == pc[s] \in {"done", "panicked"}

\* The call of session s reached inactiveHandle.Activate().
ReachedActivate(s) == \E i \in DOMAIN calls[s] : calls[s][i][1] = "Activate"

\* C1: a call that reached Activate has, once it has ended, closed a live
\* handle exactly as often as it obtained one (at most once), and has
\* called Close on no nil handle.
C1_HandleReleasedOnce ==
    \A s \in Sessions :
        /\ closes[s] <= acquires[s] /\ acquires[s] <= 1
        /\ (Ended(s) /\ ReachedActivate(s)) =>
              (closes[s] = acquires[s] /\ nilCalls[s] # "Close")

\* C2: no record is sent on the stream for a read that the select received
\* after shuttingDown was closed or the stream context was done.
C2_NoSendAfterSignalFired ==
    \A s \in Sessions : lateSends[s] = 0

\* C3: once the select of a session has taken the shuttingDown branch or
\* the Context().Done() branch, no step appends a record to its stream.
C3_NoSendAfterObserved ==
    [][\A s \in Sessions : observed[s] # "none" => sent'[s] = sent[s]]_vars

\* C3 witness: the select took the shuttingDown branch while the reader
\* offered a packet, after a record had been sent.
C3_Witness ==
    \E s \in Sessions :
        /\ observed[s] = "shuttingDown"
        /\ reader[s] = "ready" /\ pkt[s].err = "nil"
        /\ Len(sent[s]) >= 1

\* C4: when a signal has fired, the step that takes a session out of its
\* select ends the call, whatever the reader offers.
C4_EndsWithinOneSelect ==
    [][\A s \in Sessions :
          (pc[s] = "Select" /\ Signalled(s) /\ pc'[s] # "Select")
              => pc'[s] = "done"]_vars

\* The call of session s ended in its run loop on a signal: its select took
\* a signal branch, or Send failed on the stream the client had closed.
EndedOnSignal(s) ==
    /\ pc[s] = "done" /\ closes[s] = 1
    /\ \/ observed[s] # "none"
       \/ ret[s] = "Send" /\ ctxDone[s]

\* C5: a call that ended in its run loop on a signal returned nil.
C5_NilOnSignal ==
    \A s \in Sessions : EndedOnSignal(s) => ret[s] = "nil"

\* The select of session s received a failed read.
ReadFailed(s) == p[s].err \in ReadErrors

\* C6: once the select has received a failed read the call has ended and
\* returned that read's error, every earlier read and no other has a
\* record on the stream, and no reader goroutine is left or started.
C6_ReadErrorReturned ==
    \A s \in Sessions :
        ReadFailed(s) =>
            /\ pc[s] = "done" /\ ret[s] = p[s].err
            /\ reader[s] = "exited"
            /\ reads[s] = Len(sent[s]) + 1

\* C6 witness: the second read of a call failed after the first was sent.
C6_Witness ==
    \E s \in Sessions :
        p[s].err = "ReadFailure" /\ Len(sent[s]) = 1 /\ pc[s] = "done"

\* 999999 as a uint32
MaxMicroseconds == [hi |-> 15, lo |-> 16959]

LeqUint32(a, b) == a.hi < b.hi \/ (a.hi = b.hi /\ a.lo <= b.lo)

\* C7: every record on the stream has Microseconds at most 999999, and
\* the record of the packet received last has Microseconds equal to the
\* nanoseconds of its capture timestamp divided by 1000, rounded down.
C7_MicrosecondsTruncated ==
    \A s \in Sessions :
        /\ \A i \in DOMAIN sent[s] :
              LeqUint32(sent[s][i].Microseconds, MaxMicroseconds)
        /\ (/\ p[s].err = "nil" /\ sent[s] # <<>>
            /\ sent[s][Len(sent[s])].Seconds = p[s].ci.Timestamp.sec)
              => sent[s][Len(sent[s])].Microseconds
                   = Uint32(p[s].ci.Timestamp.nsec \div 1000)

----------------------------------------------------------------------------
(***************************************************************************)
(* Properties of InterfaceList, checked under SpecList.                    *)
(***************************************************************************)

\* InterfaceList has returned.
Listed == listOut.err # "none"

C9_UnparsedAddressSkipped ==
    Listed =>
        \A i \in DOMAIN listOut.Interfaces :
            LET r == listOut.Interfaces[i]
            IN  /\ \A j \in DOMAIN r.Ipv4Addresses : ParseIP(r.Ipv4Addresses[j]) # <<>>
                /\ \A j \in DOMAIN r.Ipv6Addresses : ParseIP(r.Ipv6Addresses[j]) # <<>>

\* C10: InterfaceList returns a nil error; when net.Interfaces() failed the
\* reply has Success false and no interface, when it succeeded Success is
\* true, whatever passed the filter.
C10_SoftFailure ==
    Listed =>
        /\ listOut.err = "nil"
        /\ listIn.queryErr # "nil" =>
              (~listOut.Success /\ listOut.Interfaces = <<>>)
        /\ listIn.queryErr = "nil" => listOut.Success

\* C10 witness: the query succeeded on a host with interfaces, none of
\* which passed the filter.
C10_Witness ==
    /\ Listed /\ listIn.queryErr = "nil"
    /\ Len(listIn.interfaces) = 2
    /\ listOut.Interfaces = <<>>
    /\ listOut.Success

----------------------------------------------------------------------------
(***************************************************************************)
(* Further properties of LiveCapture, checked under Spec.                  *)
(***************************************************************************)

\* The call of session s is in its run loop.
InRunLoop(s) == pc[s] \in {"Loop", "Select", "Send"}

\* The set-up call op of session s was made and returned an error.
CallFailed(s, op) ==
    \E i \in DOMAIN calls[s] : calls[s][i][1] = op /\ calls[s][i][3] # "nil"

\* C11: once SetBPFFilter has returned an error the call has ended and
\* returned that error, with no record sent, no ReadPacketData made and no
\* reader goroutine started.
C11_FilterErrorBeforeLoop ==
    \A s \in Sessions :
        CallFailed(s, "SetBPFFilter") =>
            /\ pc[s] = "done" /\ ret[s] = "SetBPFFilter"
            /\ sent[s] = <<>> /\ reads[s] = 0 /\ reader[s] = "none"

\* C11 witness: a call with a filter ended on the filter's error.
C11_Witness ==
    \E s \in Sessions :
        /\ Len(in[s].Filter) > 0 /\ CallFailed(s, "SetBPFFilter")
        /\ ret[s] = "SetBPFFilter"

\* C13: after a failed Activate no method is called on the handle it
\* returned, and a call that has ended returned the error of Activate.
C13_ActivateFailureReturned ==
    \A s \in Sessions :
        CallFailed(s, "Activate") =>
            /\ nilCalls[s] = "none"
            /\ calls[s][Len(calls[s])][1] = "Activate"
            /\ pc[s] \in {"done", "panicked"} => ret[s] = "Activate"

\* The methods called so far in session s, in call order.
Methods(s) == [i \in DOMAIN calls[s] |-> calls[s][i][1]]

\* The subsequence of seq whose elements are in S.
RECURSIVE Restrict(_, _)
Restrict(seq, S) ==
    IF seq = <<>> THEN <<>>
    ELSE IF Head(seq) \in S THEN <<Head(seq)>> \o Restrict(Tail(seq), S)
    ELSE Restrict(Tail(seq), S)

\* seq is an initial segment of full.
IsPrefix(seq, full) ==
    /\ Len(seq) <= Len(full)
    /\ \A i \in DOMAIN seq : seq[i] = full[i]

\* The five settings of the claim, as the methods that apply them.
Settings ==
    {"SetSnapLen", "SetBufferSize", "SetImmediateMode", "SetPromisc", "SetTimeout"}

\* No setting is applied after Activate has been called.
SettingsBeforeActivate(s) ==
    \A i, j \in DOMAIN calls[s] :
        (calls[s][i][1] = "Activate" /\ calls[s][j][1] \in Settings) => j < i

\* C14 as stated: the settings are applied in the order snapshot length,
\* buffer size, immediate mode, promiscuous, read timeout.
C14_OrderAsStated ==
    \A s \in Sessions :
        /\ IsPrefix(Restrict(Methods(s), Settings),
                    <<"SetSnapLen", "SetBufferSize", "SetImmediateMode",
                      "SetPromisc", "SetTimeout">>)
        /\ SettingsBeforeActivate(s)

\* C14: the settings are applied in the order immediate mode, snapshot
\* length, buffer size, promiscuous, read timeout, each at most once, all
\* before Activate, and Activate is called only after all five.
C14_SettingsOrder ==
    \A s \in Sessions :
        /\ IsPrefix(Restrict(Methods(s), Settings),
                    <<"SetImmediateMode", "SetSnapLen", "SetBufferSize",
                      "SetPromisc", "SetTimeout">>)
        /\ SettingsBeforeActivate(s)
        /\ ReachedActivate(s) => Len(Restrict(Methods(s), Settings)) = 5

C14_Witness ==
    \E s \in Sessions :
        /\ ReachedActivate(s)
        /\ Restrict(Methods(s), Settings) =
               <<"SetImmediateMode", "SetSnapLen", "SetBufferSize",
                 "SetPromisc", "SetTimeout">>

\* The settings whose error is returned.
FatalSettings ==
    {"SetImmediateMode", "SetSnapLen", "SetBufferSize", "SetPromisc", "SetTimeout"}

\* C15: a failed SetRFMon is never what the call returns and is followed by
\* SetTimeout and, when that succeeds, Activate; a failure of any other
\* setting is the last call made and is returned, with no Activate.
C15_OnlyRFMonTolerated ==
    \A s \in Sessions : \A i \in DOMAIN calls[s] :
        calls[s][i][3] # "nil" =>
            /\ calls[s][i][1] = "SetRFMon" =>
                 /\ ret[s] # "SetRFMon"
                 /\ IF i = Len(calls[s]) THEN pc[s] = "SetTimeout"
                    ELSE calls[s][i + 1][1] = "SetTimeout"
                 /\ (i + 1 < Len(calls[s]) /\ calls[s][i + 1][3] = "nil")
                        => calls[s][i + 2][1] = "Activate"
            /\ calls[s][i][1] \in FatalSettings =>
                 /\ i = Len(calls[s])
                 /\ pc[s] = "done" /\ ret[s] = calls[s][i][1]
                 /\ ~ReachedActivate(s)

\* A call whose SetRFMon failed is Running and has sent a record.
C15_Witness ==
    \E s \in Sessions :
        /\ CallFailed(s, "SetRFMon")
        /\ InRunLoop(s) /\ Len(sent[s]) > 0

\* A reader goroutine of session s has been started and has not ended.
ReadOutstanding(s) == reader[s] \in {"spawned", "inflight", "ready"}

\* C16: the loop starts a reader goroutine only when no reader of the
\* session is outstanding, and a call that has ended starts none.
C16_OneReadOutstanding ==
    [][\A s \in Sessions :
          (reader'[s] = "spawned" /\ (reader[s] # "spawned" \/ pc[s] = "Loop"))
              => /\ ~ReadOutstanding(s)
                 /\ pc[s] = "Loop"]_vars

\* The second read of a session is in flight after the first was sent.
C16_Witness ==
    \E s \in Sessions :
        /\ reads[s] = 2 /\ reader[s] = "inflight"
        /\ Len(sent[s]) = 1

\* C17: the i-th record sent is the framing of the i-th packet read, and
\* the read after it is not made before it is sent.
C17_SentInReadOrder ==
    \A s \in Sessions :
        /\ \A i \in DOMAIN sent[s] :
             /\ sent[s][i].Seconds = i
             /\ sent[s][i].Data = <<i>>
             /\ sent[s][i].OriginalLength = Uint32(60 + i)
        /\ Len(sent[s]) <= reads[s]
        /\ reads[s] <= Len(sent[s]) + 1

\* Two records have been sent.
C17_Witness ==
    \E s \in Sessions : Len(sent[s]) = 2 /\ reads[s] = 2

\* C18: a read that ended with the read timeout does not end the call.
C18_TimeoutKeepsRunning ==
    \A s \in Sessions : p[s].err = "TimeoutExpired" => InRunLoop(s)

\* C19: ReadPacketData is never called on a handle that Close has closed.
C19_NoReadAfterClose ==
    \A s \in Sessions : ~readAfterClose[s]

\* C20: once the call has returned, no reader goroutine of it is blocked
\* in its send on packet, which nothing receives from any more.
C20_NoReaderLeftBlocked ==
    \A s \in Sessions : pc[s] = "done" => reader[s] # "ready"

----------------------------------------------------------------------------
(***************************************************************************)
(* Properties of concurrent LiveCapture calls, checked under SpecServer.   *)
(***************************************************************************)

\* C12: once shuttingDown is closed, every call that leaves its run loop
\* returns nil.
C12_NilAfterShutdown ==
    [][\A s \in Sessions :
          (shuttingDown = "closed" /\ InRunLoop(s) /\ pc'[s] = "done")
              => ret'[s] = "nil"]_vars

====
